---------------------------- MODULE Spec2Model ----------------------------
(***************************************************************************)
(* Model of the three gallery generators of geom_visualizer:               *)
(*   ts_viewer.py         transition-state generator ("ts")                *)
(*   structure_viewer.py  structure generator        ("structure")         *)
(*   xyz_viewer.py        coordinate-file generator  ("xyz")               *)
(* Text is modelled as a sequence of one-character strings.                *)
(***************************************************************************)
EXTENDS Integers, Sequences, FiniteSets, TLC

VARIABLES
    gen,            \* which generator's main() is running
    nlogs,          \* len(logs) / len(xyz_files) after discovery
    i,              \* loop position: number of discovered files handled
    n_valid_ts, n_minimum, n_higher_order, n_errors, n_skipped,   \* ts_viewer.main
    n_ok,           \* structure_viewer.main
    skipped,        \* xyz_viewer.main
    cards,          \* cards_html / cards, in append order
    pc,             \* position of main(): start, loop, done, fatal_*, crash
    written,        \* how many times the output file was written
    summary,        \* TRUE once the closing summary was printed
    lastpath,       \* the log the last ts iteration looked at (tail bytes)
    lastparse,      \* what the libraries did on that log, or NoParse
    lastres,        \* what parse_gaussian_output returned on it, or NoRes
    fn_stage,       \* function-level runs: "idle", "input" or "output"
    fn_in,          \* the arguments a function-level run was given
    fn_out          \* what the function returned on them

mainVars == <<gen, nlogs, i, n_valid_ts, n_minimum, n_higher_order, n_errors,
              n_skipped, n_ok, skipped, cards, pc, written, summary,
              lastpath, lastparse, lastres>>

fnVars == <<fn_stage, fn_in, fn_out>>

vars == <<mainVars, fnVars>>

(***************************************************************************)
(* Bounds                                                                  *)
(***************************************************************************)
MaxLogs == 3        \* at most this many discovered files per run
MaxFreqs == 2       \* at most this many vibrational frequencies per log
MaxSize == 5        \* at most this many bytes in a log file
TailWindow == 3     \* stands for n_lines * 200 = 120000 bytes, scaled down

Generators == {"ts", "structure", "xyz"}

RECURSIVE SeqsUpTo(_, _)
SeqsUpTo(S, n) ==
    IF n = 0 THEN {<<>>}
    ELSE LET shorter == SeqsUpTo(S, n - 1)
         IN  shorter \cup {Append(s, x) : s \in {t \in shorter : Len(t) = n - 1}, x \in S}

(***************************************************************************)
(* Termination classifier (ts_viewer.py)                                   *)
(***************************************************************************)
\* Bytes of a log: "N","E","t" spell the markers, "x" is any other text
\* byte, "bad" is a byte that is not valid UTF-8.
Bytes == {"N", "E", "t", "x", "bad"}
NormalMarker == <<"N", "t">>     \* "Normal termination of Gaussian"
ErrorMarker == <<"E", "t">>      \* "Error termination"

Min(a, b) == IF a < b THEN a ELSE b
Max(a, b) == IF a > b THEN a ELSE b

\* bytes.decode(errors='ignore'): undecodable bytes are dropped
RECURSIVE Decode(_)
Decode(bs) ==
    IF bs = <<>> THEN <<>>
    ELSE IF Len(bs) = 1 THEN (IF bs[1] = "bad" THEN <<>> ELSE bs)
    ELSE LET h == Len(bs) \div 2
         IN  Decode(SubSeq(bs, 1, h)) \o Decode(SubSeq(bs, h + 1, Len(bs)))

\* needle in text
Contains(text, needle) ==
    \E k \in 1..(Len(text) - Len(needle) + 1) :
        SubSeq(text, k, k + Len(needle) - 1) = needle

\* f.seek(max(0, size - approx)); f.read(): the bytes from that offset on
TailBytes(bs, window) ==
    LET size == Len(bs)
        approx == Min(size, window)
        start == Max(0, size - approx)
    IN  SubSeq(bs, start + 1, size)

\* a path is [bytes, readable]; an unreadable path raises inside the try
_tail_contains(path, needle, window) ==
    IF ~path.readable THEN FALSE
    ELSE Contains(Decode(TailBytes(path.bytes, window)), needle)

gaussian_normally_terminated(path) ==
    LET has_normal == _tail_contains(path, NormalMarker, TailWindow)
        has_error == _tail_contains(path, ErrorMarker, TailWindow)
    IN  has_normal /\ ~has_error

(***************************************************************************)
(* Result extractor (ts_viewer.py, parse_gaussian_output)                  *)
(***************************************************************************)
FrameCounts == 0..2     \* how many coordinate frames a parsed log may hold
FreqValues == {-2, -1, 1}
SignValues == {-1, 1}   \* one imaginary and one real frequency

\* What the libraries do on one log: cclib parses it or raises; a parsed
\* log has nframes coordinate frames (0: no atomcoords), may carry vibfreqs
\* and vibdisps (ndisps displacement tables); ase's gaussian-out reader
\* either returns the last frame or raises.
ParseInputs(values) ==
    [cclib : {"parsed", "raise"}, nframes : FrameCounts, ase_ok : BOOLEAN,
     has_vibfreqs : BOOLEAN, has_vibdisps : BOOLEAN,
     vibfreqs : SeqsUpTo(values, MaxFreqs), ndisps : 0..MaxFreqs]

NoAtoms == [src |-> "None", frame |-> 0]
Raised == [raised |-> TRUE, atoms |-> NoAtoms, frequencies |-> <<>>, normal_modes |-> <<>>]
Returned(a, f, m) == [raised |-> FALSE, atoms |-> a, frequencies |-> f, normal_modes |-> m]

\* for i, freq in enumerate(data.vibfreqs): the entries from 0-based index k on
RECURSIVE ImaginaryFrequencies(_, _)
ImaginaryFrequencies(vibfreqs, k) ==
    IF k >= Len(vibfreqs) THEN <<>>
    ELSE (IF vibfreqs[k + 1] < 0 THEN <<vibfreqs[k + 1]>> ELSE <<>>)
         \o ImaginaryFrequencies(vibfreqs, k + 1)

\* a displacement table is named by its 0-based index in data.vibdisps
RECURSIVE ImaginaryModes(_, _, _)
ImaginaryModes(vibfreqs, ndisps, k) ==
    IF k >= Len(vibfreqs) THEN <<>>
    ELSE (IF vibfreqs[k + 1] < 0 /\ k < ndisps THEN <<k>> ELSE <<>>)
         \o ImaginaryModes(vibfreqs, ndisps, k + 1)

\* the try block
DetailedAttempt(log) ==
    IF log.cclib = "raise" THEN Raised
    ELSE IF log.nframes > 0
         THEN LET atoms == [src |-> "cclib", frame |-> log.nframes]
              IN  IF log.has_vibfreqs /\ log.has_vibdisps
                  THEN Returned(atoms, ImaginaryFrequencies(log.vibfreqs, 0),
                                ImaginaryModes(log.vibfreqs, log.ndisps, 0))
                  ELSE Returned(atoms, <<>>, <<>>)
         ELSE IF log.ase_ok
              THEN Returned([src |-> "ase", frame |-> -1], <<>>, <<>>)
              ELSE Raised

\* the except block
GeometryOnlyAttempt(log) ==
    IF log.ase_ok
    THEN Returned([src |-> "ase", frame |-> -1], <<>>, <<>>)
    ELSE Returned(NoAtoms, <<>>, <<>>)

\* mutant: the except block gives up without the geometry-only read
parse_gaussian_output_NoFallback(log) ==
    LET first == DetailedAttempt(log)
    IN  IF first.raised THEN Returned(NoAtoms, <<>>, <<>>) ELSE first

parse_gaussian_output(log) ==
    LET first == DetailedAttempt(log)
    IN  IF first.raised THEN GeometryOnlyAttempt(log) ELSE first

(***************************************************************************)
(* Outcome classifier and card (ts_viewer.py)                              *)
(***************************************************************************)
\* mutant: "one imaginary mode" tested as "at least one"
Outcome_AtLeastOne(n_imaginary) ==
    IF n_imaginary >= 1 THEN "VALID_TS"
    ELSE IF n_imaginary = 0 THEN "MINIMUM"
    ELSE "HIGHER_ORDER_SADDLE"

\* which counter main() increments
Outcome(n_imaginary) ==
    IF n_imaginary = 1 THEN "VALID_TS"
    ELSE IF n_imaginary = 0 THEN "MINIMUM"
    ELSE "HIGHER_ORDER_SADDLE"

\* warning_text of make_vibration_card
WarningText(n_imaginary) ==
    IF n_imaginary = 0 THEN "minimum structure"
    ELSE IF n_imaginary > 1 THEN "higher-order saddle point"
    ELSE ""

\* the parts of a card the run statistics and the index namespace depend on
make_vibration_card(idx, atoms, frequencies, normal_modes) ==
    [idx |-> idx, n_imaginary |-> Len(frequencies), warning |-> WarningText(Len(frequencies))]

make_card(idx) == [idx |-> idx, n_imaginary |-> 0, warning |-> ""]

make_structure_card(idx) == [idx |-> idx, n_imaginary |-> 0, warning |-> ""]

\* mutant: the "no cards" test never fires
Empty_Never(lst) == FALSE

\* Python's "not lst"
Empty(lst) == Len(lst) = 0

\* mutant: the number of cards is subtracted instead of the number of skips
TsCardIndex_WrongCounter(pos, skippedSoFar) == pos - Len(cards)

\* the index main() hands to make_vibration_card
TsCardIndex(pos, skippedSoFar) == pos - skippedSoFar

\* the paths the batch model draws its logs from: finished, failed,
\* both markers, and cut short
LogPaths ==
    {[bytes |-> b, readable |-> TRUE] :
        b \in {<<"x", "N", "t">>, <<"x", "E", "t">>, <<"N", "t", "E", "t">>, <<"x", "x">>}}

\* every library behaviour with what parse_gaussian_output returns on it
ParseRuns ==
    {[log |-> [cclib |-> log.cclib, nframes |-> log.nframes, ase_ok |-> log.ase_ok],
      res |-> parse_gaussian_output(log)] : log \in ParseInputs(SignValues)}

NoPath == [bytes |-> <<>>, readable |-> FALSE]
NoParse == [cclib |-> "none"]
NoRes == [raised |-> FALSE, atoms |-> NoAtoms, frequencies |-> <<>>, normal_modes |-> <<>>]

(***************************************************************************)
(* The three main() functions                                              *)
(***************************************************************************)
countersUnchanged ==
    UNCHANGED <<n_valid_ts, n_minimum, n_higher_order, n_errors, n_skipped, n_ok, skipped>>

InitMain ==
    /\ gen \in Generators
    /\ nlogs = 0
    /\ i = 0
    /\ n_valid_ts = 0 /\ n_minimum = 0 /\ n_higher_order = 0
    /\ n_errors = 0 /\ n_skipped = 0
    /\ n_ok = 0
    /\ skipped = 0
    /\ cards = <<>>
    /\ pc = "start"
    /\ written = 0
    /\ summary = FALSE
    /\ lastpath = NoPath
    /\ lastparse = NoParse
    /\ lastres = NoRes

FnIdle == fn_stage = "idle" /\ fn_in = <<>> /\ fn_out = <<>>

\* logs = sorted(glob.glob("*.log")); if not logs: raise SystemExit
Discover(g) ==
    /\ gen = g
    /\ pc = "start"
    /\ \E n \in 0..MaxLogs :
        /\ nlogs' = n
        /\ pc' = IF n = 0 THEN "fatal_empty" ELSE "loop"
    /\ countersUnchanged
    /\ UNCHANGED fnVars
    /\ UNCHANGED <<gen, i, cards, written, summary, lastpath, lastparse, lastres>>

TsDiscover == Discover("ts")

StructDiscover == Discover("structure")

\* xyz_files = sorted(glob.glob(pattern), key=_natural_key): the key of a
\* name may raise (see NaturalKey), which ends the run before the loop
XyzDiscover ==
    \/ Discover("xyz")
    \/ /\ gen = "xyz"
       /\ pc = "start"
       /\ \E n \in 1..MaxLogs : nlogs' = n
       /\ pc' = "crash"
       /\ countersUnchanged
       /\ UNCHANGED fnVars
       /\ UNCHANGED <<gen, i, cards, written, summary, lastpath, lastparse, lastres>>

InTsLoop == gen = "ts" /\ pc = "loop" /\ i < nlogs

\* mutant: the skip branch continues without counting the skip
TsSkip_Uncounted ==
    /\ InTsLoop
    /\ \E path \in LogPaths :
        /\ ~gaussian_normally_terminated(path)
        /\ lastpath' = path
    /\ i' = i + 1
    /\ lastparse' = NoParse
    /\ lastres' = NoRes
    /\ UNCHANGED fnVars
    /\ UNCHANGED <<gen, nlogs, n_valid_ts, n_minimum, n_higher_order, n_errors, n_skipped,
                   n_ok, skipped, cards, pc, written, summary>>

\* if not gaussian_normally_terminated(log_file): ... n_skipped += 1; continue
TsSkip ==
    /\ InTsLoop
    /\ \E path \in LogPaths :
        /\ ~gaussian_normally_terminated(path)
        /\ lastpath' = path
    /\ n_skipped' = n_skipped + 1
    /\ i' = i + 1
    /\ lastparse' = NoParse
    /\ lastres' = NoRes
    /\ UNCHANGED fnVars
    /\ UNCHANGED <<gen, nlogs, n_valid_ts, n_minimum, n_higher_order, n_errors, n_ok,
                   skipped, cards, pc, written, summary>>

\* atoms is None: n_errors += 1; continue
TsParseError ==
    /\ InTsLoop
    /\ \E path \in LogPaths, run \in ParseRuns :
        LET res == run.res
        IN  /\ gaussian_normally_terminated(path)
            /\ res.atoms = NoAtoms
            /\ lastpath' = path
            /\ lastparse' = run.log
            /\ lastres' = res
    /\ n_errors' = n_errors + 1
    /\ i' = i + 1
    /\ UNCHANGED fnVars
    /\ UNCHANGED <<gen, nlogs, n_valid_ts, n_minimum, n_higher_order, n_skipped, n_ok,
                   skipped, cards, pc, written, summary>>

\* the outcome counters, make_vibration_card(i - n_skipped, ...), append
TsCard ==
    /\ InTsLoop
    /\ \E path \in LogPaths, run \in ParseRuns :
        LET res == run.res
            n_imaginary == Len(res.frequencies)
            outcome == Outcome(n_imaginary)
            card == make_vibration_card(TsCardIndex(i, n_skipped), res.atoms,
                                        res.frequencies, res.normal_modes)
        IN  /\ gaussian_normally_terminated(path)
            /\ res.atoms # NoAtoms
            /\ lastpath' = path
            /\ lastparse' = run.log
            /\ lastres' = res
            /\ n_valid_ts' = IF outcome = "VALID_TS" THEN n_valid_ts + 1 ELSE n_valid_ts
            /\ n_minimum' = IF outcome = "MINIMUM" THEN n_minimum + 1 ELSE n_minimum
            /\ n_higher_order' = IF outcome = "HIGHER_ORDER_SADDLE"
                                 THEN n_higher_order + 1 ELSE n_higher_order
            /\ cards' = Append(cards, card)
    /\ i' = i + 1
    /\ UNCHANGED fnVars
    /\ UNCHANGED <<gen, nlogs, n_errors, n_skipped, n_ok, skipped, pc, written, summary>>

\* after the loop: SystemExit without cards, else write the file and print
\* the summary
Finish(g) ==
    /\ gen = g
    /\ pc = "loop"
    /\ i = nlogs
    /\ IF Empty(cards)
       THEN /\ pc' = "fatal_nocards"
            /\ UNCHANGED <<written, summary>>
       ELSE /\ written' = written + 1
            /\ summary' = TRUE
            /\ pc' = "done"
    /\ countersUnchanged
    /\ UNCHANGED fnVars
    /\ UNCHANGED <<gen, nlogs, i, cards, lastpath, lastparse, lastres>>

TsFinish == Finish("ts")

StructFinish == Finish("structure")

XyzFinish == Finish("xyz")

InLoop(g) == gen = g /\ pc = "loop" /\ i < nlogs

\* structure_viewer.main: read() raised: print, continue
StructSkip ==
    /\ InLoop("structure")
    /\ i' = i + 1
    /\ countersUnchanged
    /\ UNCHANGED fnVars
    /\ UNCHANGED <<gen, nlogs, cards, pc, written, summary, lastpath, lastparse, lastres>>

\* structure_viewer.main: make_card(i, ...), append, n_ok += 1
StructCard ==
    /\ InLoop("structure")
    /\ cards' = Append(cards, make_card(i))
    /\ n_ok' = n_ok + 1
    /\ i' = i + 1
    /\ UNCHANGED fnVars
    /\ UNCHANGED <<gen, nlogs, n_valid_ts, n_minimum, n_higher_order, n_errors, n_skipped,
                   skipped, pc, written, summary, lastpath, lastparse, lastres>>

\* structure_viewer.main: atoms_to_xyz is called outside the try; ase's XYZ
\* writer raises ValueError on a comment (the file's base name) that holds a
\* line break, which ends the run
StructCrash ==
    /\ InLoop("structure")
    /\ pc' = "crash"
    /\ countersUnchanged
    /\ UNCHANGED fnVars
    /\ UNCHANGED <<gen, nlogs, i, cards, written, summary, lastpath, lastparse, lastres>>

\* xyz_viewer.main: parse_xyz_file returned None: skipped += 1; continue
XyzSkip ==
    /\ InLoop("xyz")
    /\ skipped' = skipped + 1
    /\ i' = i + 1
    /\ UNCHANGED fnVars
    /\ UNCHANGED <<gen, nlogs, n_valid_ts, n_minimum, n_higher_order, n_errors, n_skipped,
                   n_ok, cards, pc, written, summary, lastpath, lastparse, lastres>>

\* xyz_viewer.main: cards.append(make_structure_card(len(cards), ...))
XyzCard ==
    /\ InLoop("xyz")
    /\ cards' = Append(cards, make_structure_card(Len(cards)))
    /\ i' = i + 1
    /\ countersUnchanged
    /\ UNCHANGED fnVars
    /\ UNCHANGED <<gen, nlogs, pc, written, summary, lastpath, lastparse, lastres>>

Next ==
    \/ TsDiscover \/ TsSkip \/ TsParseError \/ TsCard \/ TsFinish
    \/ StructDiscover \/ StructSkip \/ StructCard \/ StructCrash \/ StructFinish
    \/ XyzDiscover \/ XyzSkip \/ XyzCard \/ XyzFinish

Init == InitMain /\ FnIdle

Spec == Init /\ [][Next]_vars

(***************************************************************************)
(* Claims about the batch runs (specification Spec)                        *)
(***************************************************************************)
CardsWhere(S) == Cardinality({k \in 1..Len(cards) : cards[k].n_imaginary \in S})

\* C2: the outcome of a processed log depends on its imaginary-mode count
\* alone (0: minimum, 1: valid transition state, more: higher-order saddle);
\* each card stands in exactly one outcome counter, and the card's warning
\* is the one of that outcome (none for exactly one imaginary mode).
C2_OutcomeByCount ==
    gen = "ts" =>
        /\ n_minimum = CardsWhere({0})
        /\ n_valid_ts = CardsWhere({1})
        /\ n_higher_order = CardsWhere(2..MaxFreqs)
        /\ \A k \in 1..Len(cards) :
            LET n == cards[k].n_imaginary
                w == cards[k].warning
            IN  /\ (w # "") <=> (n = 0 \/ n > 1)
                /\ n = 0 => w = "minimum structure"
                /\ n > 1 => w = "higher-order saddle point"

C2_Witness ==
    /\ gen = "ts"
    /\ n_minimum = 1 /\ n_valid_ts = 1 /\ n_higher_order = 1
    /\ Len(cards) = 3

\* C3: after k logs were handled the five counters add up to k and the
\* number of cards is the sum of the three outcome counters; a run that
\* left the loop handled every discovered log.
C3_CountersAddUp ==
    gen = "ts" =>
        /\ n_skipped + n_errors + n_valid_ts + n_minimum + n_higher_order = i
        /\ Len(cards) = n_valid_ts + n_minimum + n_higher_order
        /\ i <= nlogs
        /\ pc \in {"done", "fatal_nocards"} => i = nlogs

C3_Witness ==
    /\ gen = "ts"
    /\ pc = "done"
    /\ n_skipped = 1 /\ n_errors = 1
    /\ Len(cards) = 1 /\ cards[1].idx = 1

\* C4: no two cards of one document carry the same index, in each of the
\* three generators.
C4_IndexUnique ==
    \A j, k \in 1..Len(cards) : j # k => cards[j].idx # cards[k].idx

C4_Witness ==
    /\ gen = "ts"
    /\ Len(cards) = 2
    /\ n_errors = 1
    /\ cards[1].idx = 1

\* C5: (transition-state and coordinate-file generators) the output file is
\* written at most once, and exactly when the run ended with at least one
\* card, after the last input; an empty discovery aborts before any file is
\* handled, a run without cards aborts after all of them, both unwritten.
C5_WrittenIffCards ==
    gen \in {"ts", "xyz"} =>
        /\ written \in {0, 1}
        /\ written = 1 <=> pc = "done"
        /\ pc = "done" => Len(cards) >= 1 /\ i = nlogs
        /\ pc = "fatal_empty" => nlogs = 0 /\ i = 0 /\ written = 0
        /\ pc = "fatal_nocards" => nlogs > 0 /\ i = nlogs /\ Len(cards) = 0 /\ written = 0
        /\ pc \in {"done", "fatal_empty", "fatal_nocards", "crash"} =>
               (written = 1 <=> Len(cards) >= 1)

C5_Witness ==
    /\ gen = "ts"
    /\ pc = "done"
    /\ written = 1
    /\ n_skipped = 1 /\ n_errors = 1

\* C6 (as claimed): a transition-state run that ends without cards has
\* printed the summary with the skip and error counts before it aborts.
C6_SummaryBeforeAbort ==
    (gen = "ts" /\ pc = "fatal_nocards") => summary

\* C7: parse_gaussian_output returns the last cclib frame with the
\* imaginary modes when the detailed attempt succeeds, the geometry-only
\* read with empty lists when it does not, and no atoms only when the
\* geometry-only read fails too; on that, main counts one parse error,
\* appends no card, changes no other counter and goes on with the loop.
C7_ParseState ==
    (gen = "ts" /\ lastparse.cclib # "none") =>
        LET log == lastparse
            res == lastres
            detailed == log.cclib = "parsed" /\ log.nframes > 0
        IN  /\ detailed => res.atoms = [src |-> "cclib", frame |-> log.nframes]
            /\ (~detailed /\ log.ase_ok) =>
                   /\ res.atoms.src = "ase"
                   /\ res.frequencies = <<>>
                   /\ res.normal_modes = <<>>
            /\ res.atoms = NoAtoms <=> (~detailed /\ ~log.ase_ok)
            /\ res.atoms = NoAtoms => res.frequencies = <<>> /\ res.normal_modes = <<>>
            /\ \A k \in 1..Len(res.frequencies) : res.frequencies[k] < 0

C7_FailedStep ==
    (gen = "ts" /\ i' = i + 1 /\ lastparse'.cclib # "none" /\ lastres'.atoms = NoAtoms) =>
        /\ n_errors' = n_errors + 1
        /\ cards' = cards
        /\ UNCHANGED <<n_valid_ts, n_minimum, n_higher_order, n_skipped>>
        /\ pc' = "loop"

C7_TwoAttempts == [](C7_ParseState) /\ [][C7_FailedStep]_vars

C7_Witness ==
    /\ gen = "ts"
    /\ lastparse.cclib = "parsed"
    /\ lastres.atoms = NoAtoms
    /\ n_errors = 1
    /\ Len(cards) = 1

(***************************************************************************)
(* Function-level run of the termination classifier (specification         *)
(* SpecTail): every log of at most MaxSize bytes, readable or not           *)
(***************************************************************************)
MainOff ==
    /\ gen = "none"
    /\ nlogs = 0
    /\ i = 0
    /\ n_valid_ts = 0 /\ n_minimum = 0 /\ n_higher_order = 0
    /\ n_errors = 0 /\ n_skipped = 0
    /\ n_ok = 0
    /\ skipped = 0
    /\ cards = <<>>
    /\ pc = "off"
    /\ written = 0
    /\ summary = FALSE
    /\ lastpath = NoPath
    /\ lastparse = NoParse
    /\ lastres = NoRes

InitTail ==
    /\ MainOff
    /\ fn_stage = "input"
    /\ fn_in \in [bytes : SeqsUpTo(Bytes, MaxSize), readable : BOOLEAN]
    /\ fn_out = <<>>

\* main() asks gaussian_normally_terminated(log_file)
Classify ==
    /\ fn_stage = "input"
    /\ fn_out' = [usable |-> gaussian_normally_terminated(fn_in)]
    /\ fn_stage' = "output"
    /\ UNCHANGED fn_in
    /\ UNCHANGED mainVars

NextTail == Classify

SpecTail == InitTail /\ [][NextTail]_vars

\* the marker's bytes stand in the file at offset p (1-based), wholly
\* inside the last min(size, window) bytes
MarkerAt(bs, marker, p) ==
    /\ p + Len(marker) - 1 <= Len(bs)
    /\ \A k \in 1..Len(marker) : bs[p + k - 1] = marker[k]

MarkerInWindow(bs, marker, window) ==
    \E p \in 1..Len(bs) :
        /\ p > Len(bs) - Min(Len(bs), window)
        /\ MarkerAt(bs, marker, p)

\* C1 (as claimed): a readable log is reported usable exactly when the
\* normal marker occurs wholly inside the trailing window of its bytes and
\* the error marker does not occur inside that window.
C1_UsableIffMarkersInWindow ==
    (fn_stage = "output" /\ fn_in.readable) =>
        (fn_out.usable <=>
            (/\ MarkerInWindow(fn_in.bytes, NormalMarker, TailWindow)
             /\ ~MarkerInWindow(fn_in.bytes, ErrorMarker, TailWindow)))

(***************************************************************************)
(* Geometry encoder and viewer scripts.  A text is a sequence of tokens:   *)
(* each of the characters | ' " \ & < > space and line break is a token of *)
(* its own, any other token is a run of plain characters.                  *)
(***************************************************************************)
MaxName == 2        \* at most this many characters in a file name's stem
MaxAtoms == 2       \* at most this many atoms in a structure

NL == "\n"
BAR == "|"
APOS == "'"
DQUOTE == "\""
BSLASH == "\\"

NameChars == {"a", BAR, APOS, DQUOTE, BSLASH, NL}

AtomSet == {[symbol |-> "H", position |-> <<0, 0, 0>>],
            [symbol |-> "O", position |-> <<1, 0, -1>>]}

Digit(d) == CASE d = 0 -> "0" [] d = 1 -> "1" [] d = 2 -> "2" [] d = 3 -> "3"
              [] d = 4 -> "4" [] d = 5 -> "5" [] d = 6 -> "6" [] d = 7 -> "7"
              [] d = 8 -> "8" [] d = 9 -> "9"

\* str(n) for an integer
RECURSIVE NatStr(_)
NatStr(n) == IF n < 10 THEN <<Digit(n)>> ELSE NatStr(n \div 10) \o <<Digit(n % 10)>>

IntStr(n) == IF n < 0 THEN <<"-">> \o NatStr(-n) ELSE NatStr(n)

\* f"{x:.6f}" of a whole number
Fixed6(x) == IntStr(x) \o <<".000000">>

\* "sep".join(lines)
RECURSIVE Join(_, _)
Join(lines, sep) ==
    IF lines = <<>> THEN <<>>
    ELSE IF Len(lines) = 1 THEN lines[1]
    ELSE LET h == Len(lines) \div 2
         IN  Join(SubSeq(lines, 1, h), sep) \o <<sep>>
                 \o Join(SubSeq(lines, h + 1, Len(lines)), sep)

\* text.replace(old, new) for a single character old
RECURSIVE Replace(_, _, _)
Replace(text, old, new) ==
    IF text = <<>> THEN <<>>
    ELSE IF Len(text) = 1 THEN (IF text[1] = old THEN new ELSE text)
    ELSE LET h == Len(text) \div 2
         IN  Replace(SubSeq(text, 1, h), old, new)
                 \o Replace(SubSeq(text, h + 1, Len(text)), old, new)

\* f"{symbol} {x:.6f} {y:.6f} {z:.6f}"
AtomLine(atom) ==
    <<atom.symbol, " ">> \o Fixed6(atom.position[1]) \o <<" ">>
        \o Fixed6(atom.position[2]) \o <<" ">> \o Fixed6(atom.position[3])

\* ts_viewer.atoms_to_xyz and xyz_viewer._fallback_atoms_to_xyz
atoms_to_xyz(atoms, comment) ==
    Join(<<NatStr(Len(atoms)), comment>> \o [k \in 1..Len(atoms) |-> AtomLine(atoms[k])], NL)

\* ts_viewer.xyz_to_jsmol_data_script and the xyz_viewer fallback
xyz_to_jsmol_data_script(xyz_text) ==
    <<"data ", APOS, "model X", APOS, BAR>> \o Replace(xyz_text, NL, <<BAR>>)
        \o <<BAR, "end ", APOS, "model X", APOS, ";">>

\* str.rstrip(): trailing white space removed
RECURSIVE RStrip(_)
RStrip(text) ==
    IF text = <<>> THEN <<>>
    ELSE IF text[Len(text)] \in {" ", NL} THEN RStrip(SubSeq(text, 1, Len(text) - 1))
    ELSE text

\* '%-2s %22.15f %22.15f %22.15f\n' of ase's XYZ writer, without the line break
AseAtomLine(atom) ==
    <<atom.symbol, " ", " ">> \o IntStr(atom.position[1]) \o <<".000000000000000", " ">>
        \o IntStr(atom.position[2]) \o <<".000000000000000", " ">>
        \o IntStr(atom.position[3]) \o <<".000000000000000">>

RECURSIVE Flatten(_)
Flatten(texts) ==
    IF texts = <<>> THEN <<>>
    ELSE IF Len(texts) = 1 THEN texts[1]
    ELSE LET h == Len(texts) \div 2
         IN  Flatten(SubSeq(texts, 1, h)) \o Flatten(SubSeq(texts, h + 1, Len(texts)))

\* structure_viewer.atoms_to_xyz: ase.io.write(buf, atoms, format="xyz",
\* comment=comment) strips the comment on the right, refuses a comment with
\* a line break, and ends every line, the last included, with a line break
AseWriteRaises(comment) == \E k \in 1..Len(RStrip(comment)) : RStrip(comment)[k] = NL

atoms_to_xyz_ase(atoms, comment) ==
    Flatten(<<NatStr(Len(atoms)) \o <<NL>>, RStrip(comment) \o <<NL>>>>
            \o [k \in 1..Len(atoms) |-> AseAtomLine(atoms[k]) \o <<NL>>])

\* structure_viewer.xyz_to_jsmol_data_script
xyz_to_jsmol_data_script_show(xyz_text) ==
    <<"data ", APOS, "model X", APOS, BAR>> \o Replace(xyz_text, NL, <<BAR>>)
        \o <<BAR, "end ", APOS, "model X", APOS, ";", "show data;">>

\* mutant: only the apostrophes are escaped
EscapeForJs_ApostropheOnly(script) == Replace(script, APOS, <<BSLASH, APOS>>)

\* script.replace('"', '&quot;').replace("'", "\\'") of make_vibration_card
\* and make_card
EscapeForJs(script) == Replace(Replace(script, DQUOTE, <<"&quot;">>), APOS, <<BSLASH, APOS>>)

\* html.escape(text): & < > " ' become entities
HtmlEscapeChar(c) ==
    CASE c = "&" -> "&amp;" [] c = "<" -> "&lt;" [] c = ">" -> "&gt;"
      [] c = DQUOTE -> "&quot;" [] c = APOS -> "&#x27;" [] OTHER -> c

HtmlEscape(text) == [k \in 1..Len(text) |-> HtmlEscapeChar(text[k])]

\* json.dumps(text) without the enclosing quotes it adds
RECURSIVE JsonDumps(_)
JsonDumps(text) ==
    IF text = <<>> THEN <<>>
    ELSE IF Len(text) = 1
         THEN (CASE text[1] = DQUOTE -> <<BSLASH, DQUOTE>>
                 [] text[1] = BSLASH -> <<BSLASH, BSLASH>>
                 [] text[1] = NL -> <<BSLASH, "n">>
                 [] OTHER -> text)
    ELSE LET h == Len(text) \div 2
         IN  JsonDumps(SubSeq(text, 1, h)) \o JsonDumps(SubSeq(text, h + 1, Len(text)))

\* the displacement of atom j (0-based) in displacement table m of the log
ModeDisp(m, j) == <<m, j, 0>>

\* f"{freq:.2f}" of a whole number
Fixed2(x) == IntStr(x) \o <<".00">>

\* the frame of one (freq, mode) pair: atom count, label, atom lines
VibrationFrame(atoms, freq, mode) ==
    <<NatStr(Len(atoms)), <<"freq = ">> \o Fixed2(freq) \o <<" cm-1">>>>
        \o [j \in 1..Len(atoms) |->
               AtomLine(atoms[j]) \o <<" 0 ">> \o Fixed6(ModeDisp(mode, j - 1)[1]) \o <<" ">>
                   \o Fixed6(ModeDisp(mode, j - 1)[2]) \o <<" ">>
                   \o Fixed6(ModeDisp(mode, j - 1)[3])]

\* for i, (freq, mode) in enumerate(zip(frequencies, normal_modes))
RECURSIVE VibrationFrames(_, _, _)
VibrationFrames(atoms, frequencies, normal_modes) ==
    IF frequencies = <<>> \/ normal_modes = <<>> THEN <<>>
    ELSE VibrationFrame(atoms, Head(frequencies), Head(normal_modes))
             \o VibrationFrames(atoms, Tail(frequencies), Tail(normal_modes))

\* ts_viewer.create_jsmol_vibration_script; None is the empty text, which
\* is what make_vibration_card turns it into ("or ''")
create_jsmol_vibration_script(atoms, frequencies, normal_modes) ==
    IF frequencies = <<>> \/ normal_modes = <<>> THEN <<>>
    ELSE Replace(Join(<<<<"load data ", APOS, "model VIBRATIONS", APOS>>>>
                          \o VibrationFrames(atoms, frequencies, normal_modes)
                          \o <<<<"end ", APOS, "model VIBRATIONS", APOS>>>>, NL),
                 NL, <<BAR>>)

(***************************************************************************)
(* Function-level runs of the script builders (specification SpecScript):  *)
(* one card's scripts, for every generator, structure and file name        *)
(***************************************************************************)
Stems == {st \in SeqsUpTo(NameChars, MaxName) : st # <<>>}

Structures == {a \in SeqsUpTo(AtomSet, MaxAtoms) : a # <<>>}

\* the (frequencies, normal_modes) pairs parse_gaussian_output can return
VibResults ==
    {<<res.frequencies, res.normal_modes>> :
        res \in {r \in {parse_gaussian_output(log) : log \in ParseInputs(FreqValues)} :
                     r.atoms # NoAtoms}}

InitScript ==
    /\ MainOff
    /\ fn_stage = "input"
    /\ \E g \in Generators, st \in Stems, atoms \in Structures, vib \in VibResults :
        /\ g # "ts" => vib = <<<<>>, <<>>>>
        \* the vibration script does not hold the name: every name with no
        \* or one mode, every set of modes with a plain name
        /\ st # <<"a">> => vib \in {<<<<>>, <<>>>>, <<<<-1>>, <<0>>>>}
        /\ fn_in = [gen |-> g, stem |-> st, atoms |-> atoms,
                    frequencies |-> vib[1], normal_modes |-> vib[2]]
    /\ fn_out = <<>>

NoScripts == [raised |-> TRUE, base_script |-> <<>>, host_base |-> <<>>,
              vibr_script |-> <<>>, host_vibr |-> <<>>]

\* ts_viewer.make_vibration_card: baseScript and vibrScript as they stand
\* between the double quotes of the generated JavaScript
TsScripts ==
    /\ fn_stage = "input"
    /\ fn_in.gen = "ts"
    /\ LET title == fn_in.stem \o <<".log">>
           n_imaginary == Len(fn_in.frequencies)
           xyz == atoms_to_xyz(fn_in.atoms, title)
           base_script == xyz_to_jsmol_data_script(xyz)
           vibr_script == IF n_imaginary > 0
                          THEN create_jsmol_vibration_script(fn_in.atoms, fn_in.frequencies,
                                                             fn_in.normal_modes)
                          ELSE <<>>
       IN  fn_out' = [raised |-> FALSE, base_script |-> base_script,
                      host_base |-> EscapeForJs(base_script),
                      vibr_script |-> vibr_script,
                      host_vibr |-> EscapeForJs(vibr_script)]
    /\ fn_stage' = "output"
    /\ UNCHANGED fn_in
    /\ UNCHANGED mainVars

\* structure_viewer.main and make_card: the script field of Info
StructScripts ==
    /\ fn_stage = "input"
    /\ fn_in.gen = "structure"
    /\ LET comment == fn_in.stem \o <<".log">>
           xyz == atoms_to_xyz_ase(fn_in.atoms, comment)
           jsmol_script == xyz_to_jsmol_data_script_show(xyz)
       IN  fn_out' = IF AseWriteRaises(comment) THEN NoScripts
                     ELSE [raised |-> FALSE, base_script |-> jsmol_script,
                           host_base |-> EscapeForJs(jsmol_script),
                           vibr_script |-> <<>>, host_vibr |-> <<>>]
    /\ fn_stage' = "output"
    /\ UNCHANGED fn_in
    /\ UNCHANGED mainVars

\* xyz_viewer.make_structure_card: script: json.dumps(base_script)
XyzScripts ==
    /\ fn_stage = "input"
    /\ fn_in.gen = "xyz"
    /\ LET rel_path == HtmlEscape(<<"min_xyz/">> \o fn_in.stem \o <<".xyz">>)
           xyz_text == atoms_to_xyz(fn_in.atoms, rel_path)
           base_script == xyz_to_jsmol_data_script(xyz_text)
       IN  fn_out' = [raised |-> FALSE, base_script |-> base_script,
                      host_base |-> JsonDumps(base_script),
                      vibr_script |-> <<>>, host_vibr |-> <<>>]
    /\ fn_stage' = "output"
    /\ UNCHANGED fn_in
    /\ UNCHANGED mainVars

NextScript == TsScripts \/ StructScripts \/ XyzScripts

SpecScript == InitScript /\ [][NextScript]_vars

\* text.split(sep)
RECURSIVE Split(_, _)
Split(text, sep) ==
    IF \A k \in 1..Len(text) : text[k] # sep THEN <<text>>
    ELSE LET first == CHOOSE k \in 1..Len(text) :
                          text[k] = sep /\ \A j \in 1..(k - 1) : text[j] # sep
         IN  <<SubSeq(text, 1, first - 1)>> \o Split(SubSeq(text, first + 1, Len(text)), sep)

Has(text, c) == \E k \in 1..Len(text) : text[k] = c

\* C8 (as claimed): in the transition-state and the structure generator the
\* static load script holds no line break and splits on | into the start
\* marker, the N+2 lines of the geometry block (atom count, the comment
\* unchanged, one line per atom in order) and the end marker, nothing else.
C8_StaticScriptShape ==
    (fn_stage = "output" /\ fn_in.gen \in {"ts", "structure"} /\ ~fn_out.raised) =>
        LET segs == Split(fn_out.base_script, BAR)
            N == Len(fn_in.atoms)
        IN  /\ ~Has(fn_out.base_script, NL)
            /\ Len(segs) = N + 4
            /\ segs[1] = <<"data ", APOS, "model X", APOS>>
            /\ segs[2] = NatStr(N)
            /\ segs[3] = fn_in.stem \o <<".log">>
            /\ \A k \in 1..N : segs[3 + k][1] = fn_in.atoms[k].symbol
            /\ segs[N + 4] = <<"end ", APOS, "model X", APOS, ";">>

\* where a JavaScript double-quoted string that starts at token k ends: the
\* first double quote that no backslash escapes (0: none)
\* (a backslash escapes the token after it, so a double quote is bare iff
\* the run of backslashes that ends just before it has even length)
FirstBareQuote(text, k) ==
    LET RunStart(p) == CHOOSE q \in (k - 1)..(p - 1) :
                           /\ q = k - 1 \/ text[q] # BSLASH
                           /\ \A r \in (q + 1)..(p - 1) : text[r] = BSLASH
        Bare == {p \in k..Len(text) :
                     text[p] = DQUOTE /\ (p - 1 - RunStart(p)) % 2 = 0}
    IN  IF Bare = {} THEN 0 ELSE CHOOSE p \in Bare : \A q \in Bare : p <= q

HostStrings == {fn_out.host_base, fn_out.host_vibr}

MaxStem == 3        \* at most this many characters before ".xyz"

\* characters of a file name: letters in both cases, decimal digits, and
\* the superscript two, which str.isdigit() accepts and \d and int() do not
StemChars == {"s", "S", "0", "1", "2", "SUP2"}
Extension == <<".", "x", "y", "z">>

DecimalValue(c) == CASE c = "0" -> 0 [] c = "1" -> 1 [] c = "2" -> 2 [] OTHER -> -1

\* the regular expression's \d
IsDecimal(c) == DecimalValue(c) >= 0

\* the characters str.isdigit() accepts
IsDigitChar(c) == IsDecimal(c) \/ c = "SUP2"

CodePoint(c) ==
    CASE c = "." -> 46 [] c = "0" -> 48 [] c = "1" -> 49 [] c = "2" -> 50
      [] c = "S" -> 83 [] c = "s" -> 115 [] c = "x" -> 120 [] c = "y" -> 121
      [] c = "z" -> 122 [] c = "SUP2" -> 178
      [] c = "g" -> 103 [] c = "l" -> 108 [] c = "o" -> 111

\* str.lower()
LowerChar(c) == IF c = "S" THEN "s" ELSE c

Lower(text) == [k \in 1..Len(text) |-> LowerChar(text[k])]

\* the length of the longest run of \d characters (or of others) at the head
RECURSIVE RunLength(_, _)
RunLength(text, decimal) ==
    IF text = <<>> \/ IsDecimal(Head(text)) # decimal THEN 0
    ELSE 1 + RunLength(Tail(text), decimal)

\* re.split(r"(\d+)", text): text, digits, text, ..., text; the pieces
\* between digit runs may be empty
RECURSIVE RegexSplitDigits(_)
RegexSplitDigits(text) ==
    LET n == RunLength(text, FALSE)
        rest == SubSeq(text, n + 1, Len(text))
        d == RunLength(rest, TRUE)
    IN  IF rest = <<>> THEN <<SubSeq(text, 1, n)>>
        ELSE <<SubSeq(text, 1, n), SubSeq(rest, 1, d)>>
                 \o RegexSplitDigits(SubSeq(rest, d + 1, Len(rest)))

\* chunk.isdigit(): not empty and all characters digits
IsDigit(chunk) == chunk # <<>> /\ \A k \in 1..Len(chunk) : IsDigitChar(chunk[k])

\* int(chunk) where it is defined
RECURSIVE IntValue(_)
IntValue(chunk) ==
    IF chunk = <<>> THEN 0
    ELSE 10 * IntValue(SubSeq(chunk, 1, Len(chunk) - 1)) + DecimalValue(chunk[Len(chunk)])

IntRaises(chunk) == \E k \in 1..Len(chunk) : ~IsDecimal(chunk[k])

\* int(chunk) if chunk.isdigit() else chunk.lower()
KeyElement(chunk) ==
    IF IsDigit(chunk)
    THEN (IF IntRaises(chunk) THEN [type |-> "ValueError", int |-> 0, str |-> <<>>]
          ELSE [type |-> "int", int |-> IntValue(chunk), str |-> <<>>])
    ELSE [type |-> "str", int |-> 0, str |-> Lower(chunk)]

\* the list _natural_key returns for a base name
_natural_key(basename) ==
    LET chunks == RegexSplitDigits(basename)
    IN  [k \in 1..Len(chunks) |-> KeyElement(chunks[k])]

KeyRaises(key) == \E k \in 1..Len(key) : key[k].type = "ValueError"

\* str < str, by code points
RECURSIVE StrLess(_, _)
StrLess(a, b) ==
    IF b = <<>> THEN FALSE
    ELSE IF a = <<>> THEN TRUE
    ELSE IF Head(a) # Head(b) THEN CodePoint(Head(a)) < CodePoint(Head(b))
    ELSE StrLess(Tail(a), Tail(b))

\* list < list as sorted() asks it: "lt", "ge", or "TypeError" when the
\* first elements that differ are an int and a str
RECURSIVE ListLess(_, _)
ListLess(a, b) ==
    IF b = <<>> THEN "ge"
    ELSE IF a = <<>> THEN "lt"
    ELSE IF Head(a) = Head(b) THEN ListLess(Tail(a), Tail(b))
    ELSE IF Head(a).type # Head(b).type THEN "TypeError"
    ELSE IF Head(a).type = "int"
         THEN (IF Head(a).int < Head(b).int THEN "lt" ELSE "ge")
         ELSE (IF StrLess(Head(a).str, Head(b).str) THEN "lt" ELSE "ge")

\* sorted([a, b], key=_natural_key): the keys are computed first, then b is
\* moved before a when key(b) < key(a)
SortedPair(a, b) ==
    LET ka == _natural_key(a \o Extension)
        kb == _natural_key(b \o Extension)
    IN  IF KeyRaises(ka) \/ KeyRaises(kb) THEN [raised |-> "ValueError", order |-> <<>>]
        ELSE IF ListLess(kb, ka) = "TypeError" THEN [raised |-> "TypeError", order |-> <<>>]
        ELSE IF ListLess(kb, ka) = "lt" THEN [raised |-> "", order |-> <<b, a>>]
        ELSE [raised |-> "", order |-> <<a, b>>]

NatStems == {st \in SeqsUpTo(StemChars, MaxStem) : st # <<>>}

InitNat ==
    /\ MainOff
    /\ fn_stage = "input"
    /\ fn_in \in [a : NatStems, b : NatStems]
    /\ fn_out = <<>>

\* xyz_files = sorted(glob.glob(pattern), key=_natural_key)
SortFiles ==
    /\ fn_stage = "input"
    /\ fn_out' = SortedPair(fn_in.a, fn_in.b)
    /\ fn_stage' = "output"
    /\ UNCHANGED fn_in
    /\ UNCHANGED mainVars

NextNat == SortFiles

SpecNat == InitNat /\ [][NextNat]_vars

\* C10 (as claimed): for every pair of file names the keys and their
\* comparison are defined, and s1, s2, s10 come out in that order.
C10_NaturalOrderDefined ==
    fn_stage = "output" =>
        /\ fn_out.raised = ""
        /\ (fn_in.a = <<"s", "1", "0">> /\ fn_in.b \in {<<"s", "1">>, <<"s", "2">>}) =>
               fn_out.order = <<fn_in.b, fn_in.a>>
        /\ (fn_in.a = <<"s", "2">> /\ fn_in.b = <<"s", "1">>) =>
               fn_out.order = <<fn_in.b, fn_in.a>>

(***************************************************************************)
(* Processing order of calculation logs (ts_viewer.py, structure_viewer.py) *)
(* specification SpecLogOrder: two logs are discovered, sorted with         *)
(* sorted() and no key, and processed one at a time                         *)
(***************************************************************************)
LogStemChars == {"s", "0", "1", "2"}
LogExtension == <<".", "l", "o", "g">>

LogStems == {st \in SeqsUpTo(LogStemChars, MaxStem) : st # <<>>}

\* sorted([a, b]) on str: b is moved before a when b < a
SortedLogs(a, b) ==
    IF StrLess(b \o LogExtension, a \o LogExtension) THEN <<b, a>> ELSE <<a, b>>

\* glob.glob("*.log") returns two different names in some order
InitLogOrder ==
    /\ MainOff
    /\ fn_stage = "input"
    /\ fn_in \in {in \in [g : {"ts", "structure"}, a : LogStems, b : LogStems] :
                      in.a # in.b}
    /\ fn_out = <<>>

\* logs = sorted(glob.glob("*.log"))
SortLogs ==
    /\ fn_stage = "input"
    /\ fn_out' = [logs |-> SortedLogs(fn_in.a, fn_in.b), processed |-> <<>>]
    /\ fn_stage' = "loop"
    /\ UNCHANGED fn_in
    /\ UNCHANGED mainVars

\* for i, log_file in enumerate(logs): one iteration (processing line or
\* warning, then the card if there is one)
ProcessLog ==
    /\ fn_stage = "loop"
    /\ Len(fn_out.processed) < Len(fn_out.logs)
    /\ LET n == Len(fn_out.processed) + 1
       IN  /\ fn_out' = [fn_out EXCEPT !.processed = Append(@, fn_out.logs[n])]
           /\ fn_stage' = IF n = Len(fn_out.logs) THEN "output" ELSE "loop"
    /\ UNCHANGED fn_in
    /\ UNCHANGED mainVars

NextLogOrder == SortLogs \/ ProcessLog

SpecLogOrder == InitLogOrder /\ [][NextLogOrder]_vars

\* a name made of decimal digits only
NumericName(st) == \A k \in 1..Len(st) : IsDecimal(st[k])

\* C11 (as claimed): of two numerically-named logs the one with the smaller
\* number is processed first (10 after 2 and after 9), in both generators.
C11_NumericLogsNaturalOrder ==
    (/\ fn_stage = "output"
     /\ NumericName(fn_in.a) /\ NumericName(fn_in.b)
     /\ IntValue(fn_in.a) < IntValue(fn_in.b)) =>
        fn_out.processed = <<fn_in.a, fn_in.b>>

(***************************************************************************)
(* Vibration frames of one transition-state card (ts_viewer.py),           *)
(* specification SpecVib: one normally terminated log is parsed and, when   *)
(* a geometry came out, carded                                              *)
(***************************************************************************)
InitVib ==
    /\ MainOff
    /\ fn_stage = "input"
    /\ fn_in \in [log : ParseInputs(FreqValues), atoms : Structures]
    /\ fn_out = <<>>

\* main(): atoms is None, no card
VibParseError ==
    /\ fn_stage = "input"
    /\ parse_gaussian_output(fn_in.log).atoms = NoAtoms
    /\ fn_out' = [card |-> FALSE, n_imaginary |-> 0, options |-> <<>>, vibr_script |-> <<>>]
    /\ fn_stage' = "output"
    /\ UNCHANGED fn_in
    /\ UNCHANGED mainVars

\* <option value="{i+1}"> for i, f in enumerate(frequencies), when there is
\* more than one imaginary mode
SelectorOptions(frequencies) ==
    IF Len(frequencies) > 1
    THEN [k \in 1..Len(frequencies) |-> [value |-> k, freq |-> frequencies[k]]]
    ELSE <<>>

\* main() and make_vibration_card: the count shown, the selector options
\* and the vibration script of the card
VibCard ==
    /\ fn_stage = "input"
    /\ LET res == parse_gaussian_output(fn_in.log)
           n_imaginary == Len(res.frequencies)
       IN  /\ res.atoms # NoAtoms
           /\ fn_out' = [card |-> TRUE, n_imaginary |-> n_imaginary,
                         options |-> SelectorOptions(res.frequencies),
                         vibr_script |->
                             IF n_imaginary > 0
                             THEN create_jsmol_vibration_script(fn_in.atoms, res.frequencies,
                                                                res.normal_modes)
                             ELSE <<>>]
    /\ fn_stage' = "output"
    /\ UNCHANGED fn_in
    /\ UNCHANGED mainVars

NextVib == VibParseError \/ VibCard

SpecVib == InitVib /\ [][NextVib]_vars

\* the 0-based positions of the negative entries of a frequency list, in
\* list order
NegativePositions(vibfreqs) ==
    LET Neg == {p \in 1..Len(vibfreqs) : vibfreqs[p] < 0}
        Pos[k \in 0..Cardinality(Neg)] ==
            IF k = 0 THEN 0
            ELSE CHOOSE p \in Neg : p > Pos[k - 1] /\ \A q \in Neg : q > Pos[k - 1] => p <= q
    IN  [k \in 1..Cardinality(Neg) |-> Pos[k] - 1]

\* C12 (as claimed): a card with n >= 1 imaginary modes has a vibration
\* script of exactly n frames of N+2 lines between the load line and the end
\* line; frame k is labelled with the k-th negative frequency of the log and
\* its atom lines carry that frequency's displacement table.
C12_FramePerImaginaryMode ==
    (fn_stage = "output" /\ fn_out.card /\ fn_out.n_imaginary >= 1) =>
        LET segs == Split(fn_out.vibr_script, BAR)
            N == Len(fn_in.atoms)
            n == fn_out.n_imaginary
            at == NegativePositions(fn_in.log.vibfreqs)
        IN  /\ Len(at) = n
            /\ Len(segs) = 2 + n * (N + 2)
            /\ \A k \in 1..n :
                  LET base == 1 + (k - 1) * (N + 2)
                  IN  /\ segs[base + 1] = NatStr(N)
                      /\ segs[base + 2] = <<"freq = ">>
                             \o Fixed2(fn_in.log.vibfreqs[at[k] + 1]) \o <<" cm-1">>
                      /\ \A j \in 1..N :
                            segs[base + 2 + j] =
                                AtomLine(fn_in.atoms[j]) \o <<" 0 ">>
                                    \o Fixed6(ModeDisp(at[k], j - 1)[1]) \o <<" ">>
                                    \o Fixed6(ModeDisp(at[k], j - 1)[2]) \o <<" ">>
                                    \o Fixed6(ModeDisp(at[k], j - 1)[3])

(***************************************************************************)
(* Card indices in document order (ts_viewer.py, specification Spec)       *)
(***************************************************************************)
\* C13 (as claimed): in the transition-state generator the card at position
\* k of the document (0-based) carries index k, whatever logs were skipped
\* or failed to parse.
C13_IndicesFollowPositions ==
    gen = "ts" => \A k \in 1..Len(cards) : cards[k].idx = k - 1

(***************************************************************************)
(* Generated control logic of one transition-state card (ts_viewer.py,     *)
(* the JavaScript of make_vibration_card), specification SpecControls: the  *)
(* page is loaded and the user clicks the buttons and uses the selector     *)
(***************************************************************************)
MaxModes == 4       \* at most this many imaginary modes on the card

\* a card with imaginary modes: with one mode it has the buttons Structure
\* and Show vibration, with more it has Structure, Show vibrations and the
\* selector; vibrScript is not empty iff it holds at least one frame
ControlCards ==
    {c \in [n_imaginary : 1..MaxModes, nframes : 0..MaxModes] : c.nframes <= c.n_imaginary}

HasSelector == fn_in.n_imaginary > 1

\* the page after its script ran: Info.script = baseScript is loaded, the
\* selector carries the attribute disabled and shows its first option
InitControls ==
    /\ MainOff
    /\ fn_stage = "page"
    /\ fn_in \in ControlCards
    /\ fn_out = [disabled |-> TRUE, value |-> 0, loaded |-> "base", vibration |-> "off",
                 model |-> 0, last_event |-> "none", issued |-> FALSE,
                 cmd_target |-> "none"]

\* mutant: Structure leaves the selector as it is
showStructure_KeepsSelector ==
    /\ fn_stage = "page"
    /\ fn_out' = [fn_out EXCEPT !.loaded = "base", !.vibration = "off", !.model = 0,
                                !.last_event = "Structure", !.issued = FALSE]
    /\ UNCHANGED <<fn_stage, fn_in>>
    /\ UNCHANGED mainVars

\* window.showStructure{idx}
showStructure ==
    /\ fn_stage = "page"
    /\ fn_out' = [fn_out EXCEPT !.loaded = "base", !.vibration = "off", !.model = 0,
                                !.disabled = IF HasSelector THEN TRUE ELSE @,
                                !.last_event = "Structure", !.issued = FALSE]
    /\ UNCHANGED <<fn_stage, fn_in>>
    /\ UNCHANGED mainVars

\* window.showVibration{idx}: the button of a card with one imaginary mode
showVibration ==
    /\ fn_stage = "page"
    /\ ~HasSelector
    /\ fn_out' = IF fn_in.nframes = 0
                 THEN [fn_out EXCEPT !.last_event = "Show vibration", !.issued = FALSE]
                 ELSE [fn_out EXCEPT !.loaded = "vibr", !.vibration = "on", !.model = 1,
                                     !.last_event = "Show vibration", !.issued = FALSE]
    /\ UNCHANGED <<fn_stage, fn_in>>
    /\ UNCHANGED mainVars

\* window.showVibrations{idx}: the button of a card with a selector
showVibrations ==
    /\ fn_stage = "page"
    /\ HasSelector
    /\ fn_out' = IF fn_in.nframes = 0
                 THEN [fn_out EXCEPT !.last_event = "Show vibrations", !.issued = FALSE]
                 ELSE [fn_out EXCEPT !.loaded = "vibr", !.vibration = "on", !.model = 1,
                                     !.disabled = FALSE,
                                     !.last_event = "Show vibrations", !.issued = FALSE]
    /\ UNCHANGED <<fn_stage, fn_in>>
    /\ UNCHANGED mainVars

\* window.changeVibration{idx} on a page in state st: m = s.value;
\* if (m > 0) "model m; vibration on; ..."
changeVibration(st) ==
    IF st.value > 0
    THEN [st EXCEPT !.model = st.value, !.vibration = "on", !.issued = TRUE,
                    !.cmd_target = st.loaded]
    ELSE [st EXCEPT !.issued = FALSE]

\* onchange="changeVibration{idx}()": the user picks another option of the
\* selector, which the browser allows only while it is not disabled
SelectOption ==
    /\ fn_stage = "page"
    /\ HasSelector
    /\ ~fn_out.disabled
    /\ \E m \in 0..fn_in.n_imaginary :
        /\ m # fn_out.value
        /\ fn_out' = changeVibration([fn_out EXCEPT !.value = m, !.last_event = "select"])
    /\ UNCHANGED <<fn_stage, fn_in>>
    /\ UNCHANGED mainVars

NextControls == showStructure \/ showVibration \/ showVibrations \/ SelectOption

SpecControls == InitControls /\ [][NextControls]_vars

\* C14: on a card with a selector, the selector is enabled only while the
\* vibration frames are loaded (it starts disabled, stays disabled when the
\* vibration script is empty, and every Structure disables it and leaves the
\* static structure loaded with vibration off); no 'model k' command of the
\* selector was issued against the static structure, and selecting the
\* placeholder option issues no command.
C14_SelectorOnlyOverVibrations ==
    HasSelector =>
        /\ ~fn_out.disabled => (fn_out.loaded = "vibr" /\ fn_in.nframes > 0)
        /\ fn_out.last_event = "none" => (fn_out.disabled /\ fn_out.loaded = "base")
        /\ fn_in.nframes = 0 => fn_out.disabled
        /\ fn_out.last_event = "Structure" =>
               (fn_out.disabled /\ fn_out.loaded = "base" /\ fn_out.vibration = "off")
        /\ fn_out.loaded = "base" => fn_out.vibration = "off"
        /\ fn_out.cmd_target # "base"
        /\ fn_out.issued => (fn_out.last_event = "select" /\ fn_out.value > 0
                                /\ fn_out.model = fn_out.value)
        /\ (fn_out.last_event = "select" /\ fn_out.value = 0) => ~fn_out.issued

\* a mode was selected over the loaded vibration frames, the frames were
\* loaded again, and then the placeholder option was selected
C14_Witness ==
    /\ HasSelector
    /\ fn_out.last_event = "select"
    /\ fn_out.value = 0
    /\ fn_out.cmd_target = "vibr"
    /\ fn_out.model = 1

====
